---- MODULE Spec2Model ----
(***************************************************************************)
(* Model of scraper.py: scrape_employees (bounded retry with exponential   *)
(* backoff, then normalization of the JSON body into the ten-column table) *)
(* and dynamic_cli_query (equality filters, projection, head, report).     *)
(***************************************************************************)
EXTENDS Integers, Sequences, FiniteSets, TLC

VARIABLES pc, max_retries, attempt, log, response, caught, result,
          q_pc, q_df, q_out,
          d_exp, d_label

fetchVars == <<pc, max_retries, attempt, log, response, caught, result>>
queryVars == <<q_pc, q_df, q_out>>
desigVars == <<d_exp, d_label>>
vars == <<pc, max_retries, attempt, log, response, caught, result,
          q_pc, q_df, q_out, d_exp, d_label>>

(* ------------------------------ bounds --------------------------------- *)
MaxRetries == 4
MaxRecords == 2
MaxExp == 60
MaxLimit == 3
MaxRows == 2

(* ------------------------------ values --------------------------------- *)
\* A JSON / pandas cell: t is the dynamic type, s the text, n the number.
\* A float cell holds twice its value in n, so that 2.5 is FloatV(5).
StrV(s) == [t |-> "str", s |-> s, n |-> 0]
IntV(n) == [t |-> "int", s |-> "", n |-> n]
FloatV(twice) == [t |-> "float", s |-> "", n |-> twice]
Null == [t |-> "null", s |-> "", n |-> 0]
NaN == [t |-> "nan", s |-> "", n |-> 0]
NA == [t |-> "na", s |-> "", n |-> 0]

Pow2(k) == 2 ^ k

\* int(x) / float -> int casts truncate toward zero
Trunc(twice) == IF twice >= 0 THEN twice \div 2 ELSE -((-twice) \div 2)

Range(f) == {f[i] : i \in DOMAIN f}

SeqsUpTo(S, n) == UNION {[1..k -> S] : k \in 0..n}

(* ------------------------- raw input records --------------------------- *)
\* The record of the test fixture, the phone shortened to "+1-9x1".
BaseRecord ==
    [first_name |-> "Jose", last_name |-> "Lopez", email |-> StrV("test@email.com"),
     phone |-> <<"+", "1", "-", "9", "x", "1">>, gender |-> StrV("male"),
     age |-> IntV(25), job_title |-> StrV("Project Manager"),
     years_of_experience |-> IntV(1), salary |-> IntV(8500),
     department |-> StrV("Product")]

PhoneTexts ==
    { <<"1", "2">>, <<"+", "1", "2">>, <<"1", "-", "2">>,
      <<"1", "X", "2">>, <<"1", ".", "5">> }

ExpValues == {IntV(4), IntV(7), IntV(12), Null, StrV("abc"), FloatV(5)}
AgeValues == {Null, StrV("abc"), FloatV(51)}
SalaryValues == {Null, StrV("abc")}

\* The fixture record and every record that differs from it in one field.
RawRecords ==
    {BaseRecord}
    \cup {[BaseRecord EXCEPT !.phone = p] : p \in PhoneTexts}
    \cup {[BaseRecord EXCEPT !.years_of_experience = v] : v \in ExpValues}
    \cup {[BaseRecord EXCEPT !.age = v] : v \in AgeValues}
    \cup {[BaseRecord EXCEPT !.salary = v] : v \in SalaryValues}
    \cup {[BaseRecord EXCEPT !.gender = StrV("female")],
          [BaseRecord EXCEPT !.department = StrV("Sales")]}

\* A parsed JSON body. "records": an array of objects; "columns": an object
\* mapping each field name to the array of its values; "array_scalars": an
\* array of numbers; "scalar": a number, a string or an object of scalars.
JsonBodies ==
    [kind : {"records"}, rows : SeqsUpTo(RawRecords, MaxRecords)]
    \cup [kind : {"columns"}, rows : SeqsUpTo(RawRecords, MaxRecords) \ {<<>>}]
    \cup [kind : {"array_scalars", "scalar"}, rows : {<<>>}]

NotJson == [kind |-> "not_json", rows |-> <<>>]
NoResponse == [kind |-> "none", rows |-> <<>>]

(* --------------------------- normalization ----------------------------- *)
Ok(v) == [ok |-> TRUE, err |-> "", val |-> v]
Err(e) == [ok |-> FALSE, err |-> e, val |-> <<>>]

\* pd.DataFrame(data): the dtype pandas infers for one column of the body.
Dtype(col) ==
    IF \E i \in DOMAIN col : col[i].t = "str" THEN "object"
    ELSE IF \A i \in DOMAIN col : col[i].t = "null" THEN "object"
    ELSE IF \E i \in DOMAIN col : col[i].t \in {"null", "float"} THEN "float64"
    ELSE "int64"

\* The value a column of the given dtype holds for a JSON value.
Stored(dtype, v) ==
    IF dtype = "float64"
    THEN IF v.t = "int" THEN FloatV(2 * v.n)
         ELSE IF v.t = "null" THEN NaN ELSE v
    ELSE v

Column(rows, field) ==
    LET raw == [i \in DOMAIN rows |-> rows[i][field]]
    IN  [i \in DOMAIN rows |-> Stored(Dtype(raw), raw[i])]

\* exp < k and k <= exp on a number as Python compares it (NaN: both false)
NumLt(exp, k) ==
    IF exp.t = "int" THEN exp.n < k
    ELSE IF exp.t = "float" THEN exp.n < 2 * k ELSE FALSE
NumLe(k, exp) ==
    IF exp.t = "int" THEN k <= exp.n
    ELSE IF exp.t = "float" THEN 2 * k <= exp.n ELSE FALSE
Comparable(exp) == exp.t \in {"int", "float", "nan"}

\* (mutant) the lower edge of the Senior band is exclusive
get_designation_exclusive(exp) ==
    IF NumLt(exp, 3) THEN "System Engineer"
    ELSE IF NumLe(3, exp) /\ NumLt(exp, 6) THEN "Data Engineer"
    ELSE IF NumLe(6, exp) /\ NumLt(exp, 10) THEN "Senior Data Engineer"
    ELSE "Lead"

\* lines 26-34
get_designation(exp) ==
    IF NumLt(exp, 3) THEN "System Engineer"
    ELSE IF NumLe(3, exp) /\ NumLt(exp, 5) THEN "Data Engineer"
    ELSE IF NumLe(5, exp) /\ NumLt(exp, 10) THEN "Senior Data Engineer"
    ELSE "Lead"

\* df['years_of_experience'].apply(get_designation): comparing a str or
\* None with an int raises TypeError.
DesignationColumn(col) ==
    IF \E i \in DOMAIN col : ~Comparable(col[i]) THEN Err("TypeError")
    ELSE Ok([i \in DOMAIN col |-> StrV(get_designation(col[i]))])

\* column.astype(int)
AsTypeInt(col) ==
    LET bad == {i \in DOMAIN col : col[i].t \in {"str", "null", "nan"}}
        first == CHOOSE i \in bad : \A j \in bad : i <= j
    IN  IF bad # {}
        THEN IF col[first].t = "null" THEN Err("TypeError") ELSE Err("ValueError")
        ELSE Ok([i \in DOMAIN col |->
                    IF col[i].t = "float" THEN IntV(Trunc(col[i].n)) ELSE col[i]])

(* ------------------------------- phone --------------------------------- *)
Digits == <<"0", "1", "2", "3", "4", "5", "6", "7", "8", "9">>
IsDigit(c) == c \in Range(Digits)
DigitVal(c) == (CHOOSE i \in DOMAIN Digits : Digits[i] = c) - 1

\* 'x' in str(p).lower()
HasX(p) == \E i \in DOMAIN p : p[i] \in {"x", "X"}

RECURSIVE DigitsVal(_)
DigitsVal(ds) ==
    IF ds = <<>> THEN 0
    ELSE 10 * DigitsVal(SubSeq(ds, 1, Len(ds) - 1)) + DigitVal(ds[Len(ds)])

RECURSIVE StripSpaces(_)
StripSpaces(p) ==
    IF p = <<>> THEN p
    ELSE IF Head(p) = " " THEN StripSpaces(Tail(p))
    ELSE IF p[Len(p)] = " " THEN StripSpaces(SubSeq(p, 1, Len(p) - 1))
    ELSE p

\* pd.to_numeric(..., errors='coerce') on one text: an optional sign, digits
\* and at most one decimal point parse; anything else is NaN.
\* kind "int" / "float" / "nan"; n the integer part; whole: no fraction.
ToNumeric(p) ==
    LET t == StripSpaces(p)
        signed == t # <<>> /\ Head(t) \in {"+", "-"}
        body == IF signed THEN Tail(t) ELSE t
        dots == {i \in DOMAIN body : body[i] = "."}
        dot == IF dots = {} THEN Len(body) + 1 ELSE CHOOSE i \in dots : TRUE
        ip == SubSeq(body, 1, dot - 1)
        fp == SubSeq(body, dot + 1, Len(body))
        sgn == IF signed /\ Head(t) = "-" THEN -1 ELSE 1
        wellFormed ==
            /\ Cardinality(dots) <= 1
            /\ \A i \in DOMAIN body : IsDigit(body[i]) \/ body[i] = "."
            /\ Len(ip) + Len(fp) > 0
    IN  IF ~wellFormed THEN [kind |-> "nan", n |-> 0, whole |-> TRUE]
        ELSE [kind |-> IF dots = {} THEN "int" ELSE "float",
              n |-> sgn * DigitsVal(ip),
              whole |-> \A i \in DOMAIN fp : fp[i] = "0"]

\* line 42: None for a text holding an x, to_numeric, then astype('Int64'),
\* which refuses a float column holding a number with a fraction.
PhoneClean(phones) ==
    LET num == [i \in DOMAIN phones |->
                   IF HasX(phones[i])
                   THEN [kind |-> "nan", n |-> 0, whole |-> TRUE]
                   ELSE ToNumeric(phones[i])]
    IN  IF \E i \in DOMAIN num : ~num[i].whole THEN Err("TypeError")
        ELSE Ok([i \in DOMAIN num |->
                    IF num[i].kind = "nan" THEN NA ELSE IntV(num[i].n)])

(* ---------------------------- the table -------------------------------- *)
OutputColumns ==
    <<"full_name", "email", "phone_clean", "gender", "age", "job_title",
      "years_of_experience", "salary", "department", "designation">>

\* lines 36-55 on a non-empty frame; the first statement that raises decides.
NormalizeRows(rows) ==
    LET desig == DesignationColumn(Column(rows, "years_of_experience"))
        phone == PhoneClean([i \in DOMAIN rows |-> rows[i].phone])
        age == AsTypeInt(Column(rows, "age"))
        exp == AsTypeInt(Column(rows, "years_of_experience"))
        salary == AsTypeInt(Column(rows, "salary"))
    IN  IF ~desig.ok THEN Err(desig.err)
        ELSE IF ~phone.ok THEN Err(phone.err)
        ELSE IF ~age.ok THEN Err(age.err)
        ELSE IF ~exp.ok THEN Err(exp.err)
        ELSE IF ~salary.ok THEN Err(salary.err)
        ELSE Ok([i \in DOMAIN rows |->
                 [full_name |-> StrV(rows[i].first_name \o " " \o rows[i].last_name),
                  email |-> rows[i].email,
                  phone_clean |-> phone.val[i],
                  gender |-> rows[i].gender,
                  age |-> age.val[i],
                  job_title |-> rows[i].job_title,
                  years_of_experience |-> exp.val[i],
                  salary |-> salary.val[i],
                  department |-> rows[i].department,
                  designation |-> desig.val[i]]])

\* lines 22-55 on the parsed body
Normalize(body) ==
    IF body.kind = "scalar" THEN Err("ValueError")
    ELSE IF body.kind = "array_scalars" \/ body.rows = <<>> THEN Err("KeyError")
    ELSE NormalizeRows(body.rows)

(* --------------------------- scrape_employees -------------------------- *)
NoExc == [type |-> "", attempt |-> -1]
NoResult == [kind |-> "none", table |-> <<>>, exc |-> NoExc]
Returned(table) == [kind |-> "table", table |-> table, exc |-> NoExc]
Exc(type, a) == [type |-> type, attempt |-> a]
Raised(exc) == [kind |-> "raised", table |-> <<>>, exc |-> exc]

\* What requests.get and raise_for_status raise: all RequestException.
TransportErrors == {"ConnectionError", "Timeout", "HTTPError"}
RequestExceptions == TransportErrors \cup {"JSONDecodeError"}

GetEvent(a) == [op |-> "GET", a |-> a, secs |-> 0]

\* (mutant) linear instead of exponential backoff
SleepEvent_linear(a) == [op |-> "SLEEP", a |-> a, secs |-> a + 1]

\* time.sleep(2 ** attempt)
SleepEvent(a) == [op |-> "SLEEP", a |-> a, secs |-> Pow2(a)]

\* (mutant) one iteration too many
MoreIterations_inclusive == attempt <= max_retries

\* for attempt in range(max_retries): is there another iteration?
MoreIterations == attempt < max_retries

InLoop == pc = "loop" /\ MoreIterations

\* (mutant) the last attempt is not recognised: back off after it too
HandleRequestException_offByOne(exc) ==
    /\ caught' = exc
    /\ IF attempt = max_retries
       THEN /\ pc' = "raised"
            /\ result' = Raised(exc)
       ELSE /\ pc' = "sleep"
            /\ result' = result

\* lines 57-61: e (caught) is bound to the RequestException; re-raise it on the
\* last attempt, otherwise back off
HandleRequestException(exc) ==
    /\ caught' = exc
    /\ IF attempt = max_retries - 1
       THEN /\ pc' = "raised"
            /\ result' = Raised(exc)
       ELSE /\ pc' = "sleep"
            /\ result' = result

\* lines 18-19: the GET times out, cannot connect, or answers 4xx/5xx
AttemptFails ==
    /\ InLoop
    /\ log' = Append(log, GetEvent(attempt))
    /\ response' = NoResponse
    /\ \E type \in TransportErrors : HandleRequestException(Exc(type, attempt))
    /\ UNCHANGED <<max_retries, attempt>>

\* line 20 on a 2xx body that is not JSON: response.json() raises
\* JSONDecodeError, a RequestException from requests 2.27 on and a plain
\* ValueError before.
AttemptNotJson ==
    /\ InLoop
    /\ log' = Append(log, GetEvent(attempt))
    /\ response' = NotJson
    /\ \E isRequestException \in BOOLEAN :
          IF isRequestException
          THEN HandleRequestException(Exc("JSONDecodeError", attempt))
          ELSE /\ pc' = "raised"
               /\ result' = Raised(Exc("ValueError", attempt))
               /\ caught' = caught
    /\ UNCHANGED <<max_retries, attempt>>

\* lines 20-55 on a 2xx body that is JSON: return the table, or let the
\* error of the normalization propagate (it is no RequestException).
AttemptParses ==
    /\ InLoop
    /\ \E body \in JsonBodies :
          LET r == Normalize(body)
          IN  /\ response' = body
              /\ IF r.ok
                 THEN pc' = "returned" /\ result' = Returned(r.val)
                 ELSE pc' = "raised" /\ result' = Raised(Exc(r.err, attempt))
    /\ log' = Append(log, GetEvent(attempt))
    /\ UNCHANGED <<max_retries, attempt, caught>>

\* line 61, then the next iteration (leaving the except clause unbinds e)
Sleep ==
    /\ pc = "sleep"
    /\ log' = Append(log, SleepEvent(attempt))
    /\ attempt' = attempt + 1
    /\ pc' = "loop"
    /\ caught' = NoExc
    /\ UNCHANGED <<max_retries, response, result>>

FailedAfterRetries == "ValueError: Failed to fetch data after retries"

\* line 64, after the loop
TrailingRaise ==
    /\ pc = "loop"
    /\ ~MoreIterations
    /\ pc' = "raised"
    /\ result' = Raised(Exc(FailedAfterRetries, attempt))
    /\ UNCHANGED <<max_retries, attempt, log, response, caught>>

QueryIdle == q_pc = "off" /\ q_df = <<>> /\ q_out = <<>>
DesigIdle == d_exp = 0 /\ d_label = ""

Init ==
    /\ pc = "loop"
    /\ max_retries \in -1..MaxRetries
    /\ attempt = 0
    /\ log = <<>>
    /\ response = NoResponse
    /\ caught = NoExc
    /\ result = NoResult
    /\ QueryIdle
    /\ DesigIdle

Next ==
    \/ AttemptFails /\ UNCHANGED <<queryVars, desigVars>>
    \/ AttemptNotJson /\ UNCHANGED <<queryVars, desigVars>>
    \/ AttemptParses /\ UNCHANGED <<queryVars, desigVars>>
    \/ Sleep /\ UNCHANGED <<queryVars, desigVars>>
    \/ TrailingRaise /\ UNCHANGED <<queryVars, desigVars>>

Spec == Init /\ [][Next]_vars

(* ----------------------------- get_designation ------------------------- *)
\* A specification of the pure function on integer experience.
InitDesignation ==
    /\ d_exp \in -MaxExp..MaxExp
    /\ d_label = ""
    /\ pc = "off" /\ max_retries = 3 /\ attempt = 0 /\ log = <<>>
    /\ response = NoResponse /\ caught = NoExc /\ result = NoResult
    /\ QueryIdle

ApplyDesignation ==
    /\ d_label = ""
    /\ d_label' = get_designation(IntV(d_exp))
    /\ UNCHANGED d_exp

NextDesignation == ApplyDesignation /\ UNCHANGED <<fetchVars, queryVars>>

SpecDesignation == InitDesignation /\ [][NextDesignation]_vars

(* --------------------------- dynamic_cli_query ------------------------- *)
Schema == Range(OutputColumns)

\* result_df[col] == value, elementwise: equal type and equal content; a
\* missing value (NA) compares equal to nothing.
CellEq(cell, value) ==
    /\ cell.t # "na"
    /\ cell.t = value.t
    /\ cell.s = value.s
    /\ cell.n = value.n

\* (mutant) a filter on an unknown column matches no row
FilterStep_unknownEmpties(df, col, value) ==
    LET Keep(r) == CellEq(r[col], value)
    IN  IF col \in Schema THEN SelectSeq(df, Keep) ELSE <<>>

\* lines 82-83: one iteration of the filter loop
FilterStep(df, col, value) ==
    LET Keep(r) == CellEq(r[col], value)
    IN  IF col \in Schema THEN SelectSeq(df, Keep) ELSE df

\* The keys of the filters dict in insertion order: __main__ inserts
\* department, designation, gender; the others follow.
FilterKeyOrder == <<"department", "designation", "gender", "age", "bogus">>
KeyIn(filters, i) == FilterKeyOrder[i] \in DOMAIN filters

\* (mutant) the loop stops after the first filter
RECURSIVE ApplyFilters_firstOnly(_, _, _)
ApplyFilters_firstOnly(df, filters, i) ==
    IF i > Len(FilterKeyOrder) THEN df
    ELSE IF KeyIn(filters, i)
    THEN FilterStep(df, FilterKeyOrder[i], filters[FilterKeyOrder[i]])
    ELSE ApplyFilters_firstOnly(df, filters, i + 1)

\* lines 80-83: the filter loop from the i-th key on
RECURSIVE ApplyFilters(_, _, _)
ApplyFilters(df, filters, i) ==
    IF i > Len(FilterKeyOrder) THEN df
    ELSE IF KeyIn(filters, i)
    THEN ApplyFilters(FilterStep(df, FilterKeyOrder[i], filters[FilterKeyOrder[i]]),
                      filters, i + 1)
    ELSE ApplyFilters(df, filters, i + 1)

InSchema(c) == c \in Schema

\* lines 86-88: a frame is its column names and its rows, a row a tuple of
\* cells in the order of the column names
Project(df, columns) ==
    LET cols == IF columns # <<>> THEN SelectSeq(columns, InSchema) ELSE OutputColumns
    IN  [cols |-> cols,
         rows |-> [i \in DOMAIN df |-> [j \in DOMAIN cols |-> df[i][cols[j]]]]]

Min(a, b) == IF a < b THEN a ELSE b
Max(a, b) == IF a > b THEN a ELSE b

\* (mutant) head(rows - 1)
HeadRows_offByOne(rows, n) ==
    SubSeq(rows, 1, Min(Max(n - 1, 0), Len(rows)))

\* DataFrame.head(n): the first n rows, or all but the last -n when n < 0
HeadRows(rows, n) ==
    IF n >= 0 THEN SubSeq(rows, 1, Min(n, Len(rows)))
    ELSE SubSeq(rows, 1, Max(Len(rows) + n, 0))

\* lines 77-95: what the call computes and prints
dynamic_cli_query(df, rows, filters, columns) ==
    LET filtered == ApplyFilters(df, filters, 1)
        result_df == Project(filtered, columns)
    IN  [rows |-> rows, filters |-> filters, columns |-> columns,
         filtered |-> filtered,
         result_df |-> result_df,
         displaying |-> Min(rows, Len(result_df.rows)),
         total |-> Len(result_df.rows),
         shown |-> HeadRows(result_df.rows, rows)]

\* The inputs of the query
QueryRecords ==
    {[BaseRecord EXCEPT !.department = d, !.gender = g] :
        d \in {StrV("Product"), StrV("Sales")}, g \in {StrV("male"), StrV("female")}}

QueryTables ==
    {Normalize([kind |-> "records", rows |-> r]).val :
        r \in SeqsUpTo(QueryRecords, MaxRows) \ {<<>>}}

FilterValues(k) ==
    IF k = "department" THEN {StrV("Product"), StrV("Sales")}
    ELSE IF k = "gender" THEN {StrV("male"), StrV("female")}
    ELSE IF k = "age" THEN {IntV(25), StrV("25")}
    ELSE {StrV("Product")}

FilterDicts ==
    UNION {{f \in [K -> UNION {FilterValues(k) : k \in K}] :
               \A k \in K : f[k] \in FilterValues(k)} :
           K \in SUBSET {"department", "gender", "age", "bogus"}}

\* columns=None and columns=[] are both falsy
ColumnLists ==
    { <<>>, <<"department">>, <<"age", "full_name">>, <<"bogus", "department">>,
      <<"bogus">>, <<"gender", "gender">> }

InitQuery ==
    /\ q_pc = "ready"
    /\ q_df \in QueryTables
    /\ q_out = <<>>
    /\ pc = "off" /\ max_retries = 3 /\ attempt = 0 /\ log = <<>>
    /\ response = NoResponse /\ caught = NoExc /\ result = NoResult
    /\ DesigIdle

Query ==
    /\ q_pc = "ready"
    /\ \E rows \in -1..MaxLimit, filters \in FilterDicts, columns \in ColumnLists :
          q_out' = dynamic_cli_query(q_df, rows, filters, columns)
    /\ q_pc' = "printed"
    /\ UNCHANGED q_df

NextQuery == Query /\ UNCHANGED <<fetchVars, desigVars>>

SpecQuery == InitQuery /\ [][NextQuery]_vars

(* ------------------------------ properties ----------------------------- *)
\* The log of k failed attempts followed by one more GET: GET 0, a sleep of
\* 1, GET 1, a sleep of 2, ..., a sleep of 2^(k-1), GET k.
BackoffLog(k) ==
    [i \in 1..(2 * k + 1) |->
        IF i % 2 = 1
        THEN [op |-> "GET", a |-> (i - 1) \div 2, secs |-> 0]
        ELSE [op |-> "SLEEP", a |-> (i \div 2) - 1, secs |-> 2 ^ ((i \div 2) - 1)]]

WellFormed(body) == body.kind = "records" /\ Normalize(body).ok

\* C1: when attempts 0..k-1 fail with a RequestException and attempt k gets
\* a well-formed response, the call has issued exactly k+1 GETs and k sleeps,
\* the sleep after failed attempt i lasting 2^i and lying between GET i and
\* GET i+1, and it returns the normalized table of that response.
C1_BackoffSchedule ==
    /\ WellFormed(response) => pc = "returned"
    /\ pc = "returned" =>
          /\ attempt \in 0..(max_retries - 1)
          /\ log = BackoffLog(attempt)
          /\ Normalize(response).ok
          /\ result = [kind |-> "table", table |-> Normalize(response).val, exc |-> NoExc]

\* two failures, then the third attempt of three succeeds: sleeps 1 and 2
C1_Witness ==
    /\ pc = "returned"
    /\ max_retries = 3
    /\ attempt = 2
    /\ Len(log) = 5 /\ log[2].secs = 1 /\ log[4].secs = 2
    /\ Len(result.table) = 2

\* C2: when all n attempts fail with a RequestException, exactly n GETs are
\* issued, the sleeps are 2^0..2^(n-2) with none after the last attempt, and
\* the call raises the exception of the last attempt and returns no table.
C2_RetryExhaustion ==
    /\ pc = "sleep" => attempt < max_retries - 1
    /\ (caught # NoExc /\ attempt = max_retries - 1) => pc = "raised"
    /\ (pc = "raised" /\ result.exc.type \in RequestExceptions) =>
          /\ max_retries >= 1
          /\ attempt = max_retries - 1
          /\ log = BackoffLog(max_retries - 1)
          /\ result.kind = "raised" /\ result.table = <<>>
          /\ result.exc = caught
          /\ caught.attempt = max_retries - 1

\* all three attempts of three fail
C2_Witness ==
    /\ pc = "raised"
    /\ max_retries = 3
    /\ result.exc = [type |-> "HTTPError", attempt |-> 2]
    /\ Len(log) = 5 /\ log[5].op = "GET"

NotIntCoercible(v) == v.t \in {"str", "null"}

\* C3: a 2xx response whose body is not a JSON array of objects, or that
\* holds a record whose age, years_of_experience or salary is not
\* integer-coercible, fails the fetch on that attempt with an error: no
\* table, no later GET, no sleep.
C3_SchemaErrorsNotRetried ==
    LET bad ==
          \/ response.kind \in {"not_json", "scalar", "array_scalars", "columns"}
          \/ /\ response.kind = "records"
             /\ \E i \in DOMAIN response.rows :
                   \E f \in {"age", "years_of_experience", "salary"} :
                      NotIntCoercible(response.rows[i][f])
    IN  bad =>
          /\ pc = "raised"
          /\ result.kind = "raised"
          /\ result.exc.attempt = attempt
          /\ log[Len(log)] = [op |-> "GET", a |-> attempt, secs |-> 0]

\* C5: in a returned table, a record whose phone text holds no x/X and
\* whose digits, the formatting stripped, form a number has that number as
\* its phone_clean.
C5_PhoneDigitsParsed ==
    pc = "returned" =>
       \A i \in DOMAIN response.rows :
          LET p == response.rows[i].phone
              residue == SelectSeq(p, IsDigit)
          IN  (~HasX(p) /\ residue # <<>>) =>
                 result.table[i].phone_clean = IntV(DigitsVal(residue))

\* C6: a response of otherwise valid records in which some phone holds an
\* x/X still yields a table with one row per record, in source order, the
\* phone_clean of those records null: no phone aborts the batch.
C6_PhoneExtensionTolerated ==
    LET rows == response.rows
        valid ==
          /\ response.kind = "records"
          /\ \A i \in DOMAIN rows :
                \A f \in {"age", "years_of_experience", "salary"} : rows[i][f].t = "int"
    IN  (valid /\ \E i \in DOMAIN rows : HasX(rows[i].phone)) =>
          /\ pc = "returned"
          /\ Len(result.table) = Len(rows)
          /\ \A i \in DOMAIN rows :
                /\ result.table[i].gender = rows[i].gender
                /\ result.table[i].department = rows[i].department
                /\ HasX(rows[i].phone) => result.table[i].phone_clean = NA

\* C10: with max_retries >= 1 the raise after the loop is never reached and
\* a call that raised did so inside an attempt; with max_retries <= 0 the
\* call issues no GET and no sleep and raises that ValueError.
C10_TrailingRaise ==
    /\ max_retries >= 1 =>
          /\ result.exc.type # FailedAfterRetries
          /\ pc = "loop" => attempt < max_retries
          /\ pc = "raised" =>
                /\ result.exc.attempt \in 0..(max_retries - 1)
                /\ log[Len(log)] = [op |-> "GET", a |-> result.exc.attempt, secs |-> 0]
    /\ max_retries <= 0 =>
          /\ log = <<>>
          /\ pc \in {"loop", "raised"}
          /\ pc = "raised" => result.exc.type = FailedAfterRetries

C10_Witness ==
    /\ max_retries = 0
    /\ pc = "raised"
    /\ result.exc.type = FailedAfterRetries
    /\ log = <<>>

\* C4: the designation of integer experience y is "System Engineer" iff
\* y < 3, "Data Engineer" iff 3 <= y < 5, "Senior Data Engineer" iff
\* 5 <= y < 10 and "Lead" iff y >= 10: exactly one label for every y.
C4_DesignationBands ==
    d_label # "" =>
       /\ d_label \in {"System Engineer", "Data Engineer", "Senior Data Engineer", "Lead"}
       /\ d_label = "System Engineer" <=> d_exp < 3
       /\ d_label = "Data Engineer" <=> (3 <= d_exp /\ d_exp < 5)
       /\ d_label = "Senior Data Engineer" <=> (5 <= d_exp /\ d_exp < 10)
       /\ d_label = "Lead" <=> d_exp >= 10

\* negative experience is a System Engineer
C4_Witness == d_exp = -1 /\ d_label = "System Engineer"

\* The rows of df at the indices in idx, in the order of df.
RECURSIVE RowsAt(_, _, _)
RowsAt(df, idx, i) ==
    IF i > Len(df) THEN <<>>
    ELSE (IF i \in idx THEN <<df[i]>> ELSE <<>>) \o RowsAt(df, idx, i + 1)

\* the rows of df that equal, in type and content, every filter on a field
\* of the schema
Matching(df, filters) ==
    {i \in DOMAIN df :
        \A k \in DOMAIN filters \cap Schema : df[i][k] = filters[k]}

IsSubSeq(small, big) ==
    \E idx \in SUBSET DOMAIN big : small = RowsAt(big, idx, 1)

\* C7: with filters over fields of the schema, the matched rows are exactly
\* the rows of the table, in order, that equal every filter value without
\* coercion; the result for more filters is a subset of the result for
\* fewer; no match is a zero-row answer.
C7_FilterConjunction ==
    (q_pc = "printed" /\ DOMAIN q_out.filters \subseteq Schema) =>
       /\ q_out.filtered = RowsAt(q_df, Matching(q_df, q_out.filters), 1)
       /\ \A K \in SUBSET DOMAIN q_out.filters :
             IsSubSeq(q_out.filtered,
                      dynamic_cli_query(q_df, q_out.rows,
                                        [k \in K |-> q_out.filters[k]],
                                        q_out.columns).filtered)
       /\ Matching(q_df, q_out.filters) = {} =>
             (q_out.total = 0 /\ q_out.shown = <<>> /\ q_out.displaying <= 0)

\* department and gender together select the second of two rows
C7_Witness ==
    /\ q_pc = "printed"
    /\ DOMAIN q_out.filters = {"department", "gender"}
    /\ Len(q_df) = 2
    /\ Matching(q_df, [department |-> q_out.filters["department"]]) = {1, 2}
    /\ q_out.filtered = <<q_df[2]>>

\* C8: for a limit >= 0 the rows shown are the first min(limit, M) rows of
\* the filtered and projected result, M the number of rows matching the
\* filter; the report states min(limit, M) and M.
C8_Truncation ==
    (q_pc = "printed" /\ q_out.rows >= 0) =>
       LET M == Cardinality(Matching(q_df, q_out.filters))
           n == IF q_out.rows < M THEN q_out.rows ELSE M
       IN  /\ Len(q_out.shown) = n
           /\ \A i \in 1..n : q_out.shown[i] = q_out.result_df.rows[i]
           /\ Len(q_out.result_df.rows) = M
           /\ q_out.displaying = n
           /\ q_out.total = M
           /\ q_out.rows = 0 => q_out.shown = <<>>
           /\ q_out.rows > M => q_out.shown = q_out.result_df.rows

\* a limit of 1 on two matching rows shows the first
C8_Witness ==
    /\ q_pc = "printed"
    /\ q_out.rows = 1
    /\ q_out.total = 2
    /\ q_out.displaying = 1
    /\ Len(q_out.shown) = 1

\* names is requested with some entries removed, the order kept
IsSubSeqOfNames(names, requested) ==
    \E idx \in SUBSET DOMAIN requested : names = RowsAt(requested, idx, 1)

\* C9: a filter on a name outside the schema removes no row, and a
\* projection keeps the requested names of the schema in the order
\* requested, drops the others and leaves the matched rows as they are.
C9_UnknownNamesIgnored ==
    q_pc = "printed" =>
       LET known == [k \in DOMAIN q_out.filters \cap Schema |-> q_out.filters[k]]
           cols == q_out.result_df.cols
       IN  /\ q_out.filtered = RowsAt(q_df, Matching(q_df, known), 1)
           /\ q_out.columns # <<>> =>
                 /\ IsSubSeqOfNames(cols, q_out.columns)
                 /\ \A c \in Range(q_out.columns) :
                       c \in Schema <=> c \in Range(cols)
                 /\ \A j \in DOMAIN cols : cols[j] \in Schema
           /\ q_out.columns = <<>> => cols = OutputColumns
           /\ Len(q_out.result_df.rows) = Len(q_out.filtered)
           /\ \A i \in DOMAIN q_out.filtered : \A j \in DOMAIN cols :
                 q_out.result_df.rows[i][j] = q_out.filtered[i][cols[j]]

\* an unknown filter and an unknown column, and rows still match
C9_Witness ==
    /\ q_pc = "printed"
    /\ "bogus" \in DOMAIN q_out.filters
    /\ q_out.columns = <<"bogus", "department">>
    /\ q_out.result_df.cols = <<"department">>
    /\ Len(q_out.filtered) = 2

====
